---- MODULE Spec2Model ----
(***************************************************************************)
(* The authenticated HTTP client (axiosInstance with its request and       *)
(* response interceptors), the cookie credential store it reads and        *)
(* writes, and the useAuth session hook built on top of it.                *)
(*                                                                         *)
(* JavaScript runs one task at a time: an action below is one task, i.e.   *)
(* everything that runs from the arrival of a network event up to the next *)
(* await on the network.  Writing the cookie, patching the header and      *)
(* re-dispatching the request after a refresh happen in one such task.     *)
(***************************************************************************)
EXTENDS Integers, Sequences, FiniteSets, TLC

\* ---------------------------------------------------------------- bounds
NReq == 2
MaxIssued == 2

Req == 1..NReq

\* ------------------------------------------------------------ JS values
\* the JavaScript value undefined (a destructured field that is missing)
Undefined == "<undefined>"
\* the empty string: the value of a cookie that is absent or cleared
Empty == ""

\* tokens the backend hands out, in the order it issues them
TokenNames == <<"tokA", "tokB", "tokC", "tokD", "tokE", "tokF", "tokG", "tokH">>

\* tokens that may be in the cookies when the page loads (an earlier login)
InitialAccess == "tok0"
InitialRefresh == "ref0"

\* truthiness of a cookie value or of a payload field (if (token), !!x)
Truthy(v) == v # Empty /\ v # Undefined

\* String(v) as a template literal computes it: `${undefined}` is "undefined"
TemplateString(v) == IF v = Undefined THEN "undefined" ELSE v

\* the Authorization header; <<>> is a request without the header
NoHeader == <<>>
Bearer(v) == <<"Bearer", TemplateString(v)>>

\* ------------------------------------------------------------- paths
LoginPath == <<"/", "l", "o", "g", "i", "n">>
DashboardPath == <<"/", "d", "a", "s", "h", "b", "o", "a", "r", "d">>
SettingsPath == DashboardPath \o <<"/", "s", "e", "t", "t", "i", "n", "g", "s">>

\* the pages of the application that send requests through the client
ClientPages == {LoginPath, SettingsPath}
\* outside a browser there is no window.location
NoLocation == <<>>

\* String.prototype.includes
Includes(s, sub) ==
    \E i \in 1..(Len(s) - Len(sub) + 1) : SubSeq(s, i, i + Len(sub) - 1) = sub

\* ------------------------------------------------------- cookie store
CookieNames == {"accessToken", "refreshToken"}

DayMaxAge == 24 * 60 * 60

\* cookies-next writes undefined as the empty string
CookieStringify(v) == IF v = Undefined THEN Empty ELSE v

\* setCookie(name, value, {maxAge})
setCookie(jar, name, value, maxAge) ==
    [jar EXCEPT ![name] = [value |-> CookieStringify(value), maxAge |-> maxAge]]

\* getCookie(name)
getCookie(jar, name) == jar[name].value

\* ['accessToken', 'refreshToken'].forEach(n => setCookie(n, '', {maxAge: 0}))
ClearAuthCookies(jar) ==
    setCookie(setCookie(jar, "accessToken", Empty, 0), "refreshToken", Empty, 0)

\* -------------------------------------------------------------- state
VARIABLES
    isBrowser,      \* typeof window !== 'undefined'
    location,       \* window.location.pathname
    locationSearch, \* window.location.search: the serialised value of its
                    \* callbackUrl parameter, <<>> without one
    navigations,    \* number of assignments to window.location.href
    cookies,        \* the cookie jar: name -> [value, maxAge]
    tokensCleared,  \* history: logout() or a refresh failure cleared the
                    \* tokens and no login has succeeded since
    issued,         \* number of tokens the backend has issued so far
    pc,             \* per request: idle, inflight, refreshing, done
    kind,           \* per request: who awaits it ("api", "session", "logout",
                    \* "login", "sidebar")
    retry,          \* per request: originalRequest._retry
    sent,           \* per request: the dispatch on the wire, [auth, store]:
                    \* its Authorization header and the accessToken cookie
                    \* at the moment it went out
    dispatches,     \* per request: number of dispatches so far
    lastReply,      \* per request: the status its last dispatch was answered with
    refreshCalls,   \* per request: calls made to /auth/refresh-token
    refreshed,      \* per request: the outcome of its refresh call
    result,         \* per request: what the caller's promise settled with
    user,           \* useState<AuthUser | null>(null)
    loading,        \* useState(true)
    error,          \* useState<string | null>(null)
    isAuthenticated,\* the value computed by the last render of useAuth
    mounted,        \* the mount effect of useAuth has run
    logoutPromise,  \* how the promise of logout() settled: none, resolved, rejected
    sessionBody,    \* the payload of the last response fetchSession received
    rememberMe,     \* login page: useState(false), the checkbox
    isRedirecting,  \* login page: useState(false), set after a login
    sidebarMounted, \* SidebarContent is mounted: its own useAuth() has run
    sidebarUser,    \* the user state of the useAuth() of SidebarContent
    requestPath,    \* route guard: request.nextUrl.pathname
    requestCookie,  \* route guard: request.cookies.get('accessToken')?.value
    guardResponse,  \* route guard: what middleware(request) returned
    roleUser,       \* hasRole: the user of the hook when hasRole is called
    roleAsked,      \* hasRole: its argument
    roleAnswer      \* hasRole: what it returned

clientVars == <<isBrowser, location, navigations, cookies, issued, pc, kind,
                retry, sent, dispatches, lastReply, refreshCalls, refreshed,
                result>>
hookVars == <<user, loading, error, isAuthenticated, mounted, logoutPromise,
             sessionBody>>
vars == <<isBrowser, location, locationSearch, navigations, cookies, tokensCleared,
          issued, pc, kind,
          retry, sent, dispatches, lastReply, refreshCalls, refreshed, result,
          user, loading, error, isAuthenticated, mounted, logoutPromise,
          sessionBody, rememberMe, isRedirecting, sidebarMounted, sidebarUser,
          requestPath, requestCookie, guardResponse,
          roleUser, roleAsked, roleAnswer>>
roleVars == <<roleUser, roleAsked, roleAnswer>>
pageVars == <<rememberMe, isRedirecting>>
sidebarVars == <<sidebarMounted, sidebarUser>>
guardVars == <<requestPath, requestCookie, guardResponse>>

\* no dispatch of the request is on the wire
NoDispatch == [auth |-> NoHeader, store |-> Empty]

\* ------------------------------------------------------ request results
NoResult == [ok |-> FALSE, src |-> "none", status |-> 0, axios |-> FALSE]
\* a response that the response interceptor passes through
Response(status) == [ok |-> TRUE, src |-> "request", status |-> status, axios |-> FALSE]
\* the AxiosError of a failed dispatch of the request; status 0: no response
RequestError(status) == [ok |-> FALSE, src |-> "request", status |-> status, axios |-> TRUE]

\* statuses of a failed dispatch (0: network error, error.response undefined)
ErrorStatuses == {401, 500, 0}

\* what the refresh endpoint can answer
NoRefresh == [type |-> "none", status |-> 0, token |-> Undefined]
RefreshOutcomes ==
    {[type |-> "reject", status |-> s, token |-> Undefined] : s \in ErrorStatuses}
    \cup {[type |-> "nodata", status |-> 200, token |-> Undefined],
          [type |-> "notoken", status |-> 200, token |-> Undefined]}
    \cup {[type |-> "token", status |-> 200, token |-> TokenNames[issued + 1]]}

\* RefreshThrows that lets a response without a payload through
RefreshThrows_OnlyReject(o) == o.type = "reject"

\* const { accessToken } = response.data.data throws a TypeError when
\* response.data.data is missing; axios.post rejects with an AxiosError
RefreshThrows(o) == o.type \in {"reject", "nodata"}
RefreshError(o) ==
    [ok |-> FALSE, src |-> "refresh", status |-> o.status, axios |-> (o.type = "reject")]

\* -------------------------------------------------------- the session
Null == [id |-> 0, authorities |-> {}]
Users == {[id |-> 1, authorities |-> {"ADMIN", "USER"}],
          [id |-> 2, authorities |-> {"USER"}]}
NoError == "<null>"

ExpiresInValues == {86400000, 3600000}
NoBody == [status |-> "", user |-> Null, token |-> Undefined, expiresIn |-> 0]
\* bodies of GET /auth/session: {status, data: {user, token, expiresIn}}
\* presented: the token values the backend may put in the body
SessionBodies(presented) ==
    {[status |-> st, user |-> u, token |-> t, expiresIn |-> e] :
        st \in {"SUCCESS", "ERROR"}, u \in Users \cup {Null},
        t \in presented, e \in ExpiresInValues}

\* err.response?.data?.message of a failed request
BackendMessage(status) ==
    CASE status = 401 -> "Unauthorized"
      [] status = 500 -> Empty
      [] OTHER -> Undefined

\* IsAuthenticatedValue that looks at the cookie only
IsAuthenticatedValue_TokenOnly(u, jar) == Truthy(getCookie(jar, "accessToken"))

\* const isAuthenticated = !!user && !!getCookie('accessToken')
IsAuthenticatedValue(u, jar) == u # Null /\ Truthy(getCookie(jar, "accessToken"))

\* ------------------------------------------------------ interceptors
\* axiosInstance.interceptors.request.use
RequestInterceptor(h, jar) ==
    LET token == getCookie(jar, "accessToken")
    IN  IF Truthy(token) THEN Bearer(token) ELSE h

\* ShouldRefresh without the test of the retry marker
ShouldRefresh_NoMarker(status, retried) == status = 401

\* ShouldRefresh on every failed dispatch, whatever its status
ShouldRefresh_AnyStatus(status, retried) == ~retried

\* ShouldRefresh that joins a refresh another request has under way
ShouldRefresh_Coalesced(status, retried) == status = 401 /\ ~retried /\ \A q \in Req : pc[q] # "refreshing"

\* error.response?.status === 401 && !originalRequest._retry
ShouldRefresh(status, retried) == status = 401 /\ ~retried

\* originalRequest.headers['Authorization'] = `Bearer ${accessToken}`
RetryHeader(accessToken) == Bearer(accessToken)

\* RefreshedCookies that gives the new token the max-age of the refresh token
RefreshedCookies_LoginMaxAge(jar, accessToken) == setCookie(jar, "accessToken", accessToken, jar["refreshToken"].maxAge)

\* RefreshedCookies that writes the new token to the refresh token as well
RefreshedCookies_Rotates(jar, accessToken) == setCookie(setCookie(jar, "accessToken", accessToken, DayMaxAge), "refreshToken", accessToken, DayMaxAge)

\* RefreshedCookies that does not write the new token
RefreshedCookies_NoWrite(jar, accessToken) == jar

\* the cookie jar after a refresh that did not throw
RefreshedCookies(jar, accessToken) == setCookie(jar, "accessToken", accessToken, DayMaxAge)

\* RefreshFailureCookies that leaves the refresh token in place
RefreshFailureCookies_AccessOnly(jar) == setCookie(jar, "accessToken", Empty, 0)

\* the cookie jar after a refresh that threw
RefreshFailureCookies(jar) == ClearAuthCookies(jar)

\* ShouldNavigate without the test of the current path
ShouldNavigate_AnyPath(browser, path) == browser

\* typeof window !== 'undefined' && !window.location.pathname.includes('/login')
ShouldNavigate(browser, path) == browser /\ ~Includes(path, LoginPath)

\* RefreshRejection that rejects with the error of the original request
RefreshRejection_Original(o, original) == original

\* what the interceptor rejects with when the refresh threw
RefreshRejection(o, original) == RefreshError(o)

\* PassThrough that wraps the failure and loses its response
PassThrough_Wrapped(original) == RequestError(0)

\* what the interceptor rejects with when it does not refresh
PassThrough(original) == original

\* ------------------------------------------------------ the route guard
RegisterPath == <<"/", "r", "e", "g", "i", "s", "t", "e", "r">>
\* the wildcard segment of a route pattern
PathWildcard == <<":", "p", "a", "t", "h", "*">>

\* const protectedRoutes = ['/dashboard', '/dashboard/:path*']
protectedRoutes == <<DashboardPath, DashboardPath \o <<"/">> \o PathWildcard>>
\* const authRoutes = ['/login', '/register']
authRoutes == <<LoginPath, RegisterPath>>

\* String.prototype.startsWith
StartsWith(s, prefix) ==
    Len(s) >= Len(prefix) /\ SubSeq(s, 1, Len(prefix)) = prefix

\* String.prototype.replace(sub, ''): the first occurrence of sub is removed
ReplaceWithEmpty(s, sub) ==
    IF ~Includes(s, sub)
    THEN s
    ELSE LET at(i) == SubSeq(s, i, i + Len(sub) - 1) = sub
             first == CHOOSE i \in 1..(Len(s) - Len(sub) + 1) :
                          at(i) /\ \A j \in 1..(i - 1) : ~at(j)
         IN  SubSeq(s, 1, first - 1) \o SubSeq(s, first + Len(sub), Len(s))

\* URLSearchParams serialises a value as application/x-www-form-urlencoded:
\* letters, digits and - stay, a space becomes +, anything else %XX
FormEncodeChar(c) ==
    CASE c = "/" -> <<"%", "2", "F">>
      [] c = "%" -> <<"%", "2", "5">>
      [] c = "+" -> <<"%", "2", "B">>
      [] c = " " -> <<"+">>
      [] OTHER -> <<c>>

RECURSIVE FormEncode(_)
FormEncode(s) ==
    IF s = <<>> THEN <<>> ELSE FormEncodeChar(Head(s)) \o FormEncode(Tail(s))

\* the character a %XX escape stands for
FormEscaped(hex) ==
    CASE hex = <<"2", "F">> -> "/"
      [] hex = <<"2", "5">> -> "%"
      [] hex = <<"2", "B">> -> "+"
      [] OTHER -> "?"

\* URLSearchParams.get: the value a serialised value is parsed back to
RECURSIVE FormDecode(_)
FormDecode(s) ==
    IF s = <<>> THEN <<>>
    ELSE IF Head(s) = "%" /\ Len(s) >= 3
         THEN <<FormEscaped(SubSeq(s, 2, 3))>> \o FormDecode(SubSeq(s, 4, Len(s)))
    ELSE IF Head(s) = "+" THEN <<" ">> \o FormDecode(Tail(s))
    ELSE <<Head(s)>> \o FormDecode(Tail(s))

\* a URL without a query string
NoSearch == [name |-> "", value |-> <<>>]
\* the guard was not asked
NoResponse == [type |-> "none", pathname |-> <<>>, search |-> NoSearch]
\* NextResponse.next()
NextResponse_next == [type |-> "next", pathname |-> <<>>, search |-> NoSearch]
\* NextResponse.redirect(url)
NextResponse_redirect(pathname, search) ==
    [type |-> "redirect", pathname |-> pathname, search |-> search]

\* matchesProtectedRoute with the exact patterns only
matchesProtectedRoute_ExactOnly(currentPath) == \E k \in DOMAIN protectedRoutes : protectedRoutes[k] = currentPath

\* protectedRoutes.some(pattern => ...)
matchesProtectedRoute(currentPath) == \E k \in DOMAIN protectedRoutes : IF Includes(protectedRoutes[k], PathWildcard) THEN StartsWith(currentPath, ReplaceWithEmpty(protectedRoutes[k], PathWildcard)) ELSE protectedRoutes[k] = currentPath

\* isAuthRoute that knows the login page only
isAuthRoute_LoginOnly(currentPath) == currentPath = LoginPath

\* authRoutes.includes(currentPath)
isAuthRoute(currentPath) == \E k \in DOMAIN authRoutes : authRoutes[k] = currentPath

\* middleware(request)
middleware(currentPath, accessToken) ==
    LET guardAuthenticated == Truthy(accessToken)
        isProtectedRoute == matchesProtectedRoute(currentPath)
    IN  IF guardAuthenticated
        THEN IF isAuthRoute(currentPath)
             THEN NextResponse_redirect(DashboardPath, NoSearch)
             ELSE NextResponse_next
        ELSE IF isAuthRoute(currentPath)
             THEN NextResponse_next
        ELSE IF isProtectedRoute
             THEN NextResponse_redirect(LoginPath,
                      [name |-> "callbackUrl", value |-> FormEncode(currentPath)])
        ELSE NextResponse_next


\* ----------------------------------------------------- the session hook
\* the catch branch of fetchSession: the error string it sets
SessionErrorString(res) ==
    IF res.axios
    THEN (IF res.src = "request" /\ Truthy(BackendMessage(res.status))
          THEN BackendMessage(res.status) ELSE "Failed to fetch session")
    ELSE "An unexpected error occurred"

\* SessionMaxAge that takes the milliseconds for seconds
SessionMaxAge_Millis(expiresIn) == expiresIn

\* maxAge: data.data.expiresIn / 1000
SessionMaxAge(expiresIn) == expiresIn \div 1000

\* LoadingAfterFetch with setLoading(false) at the end of the try block only
LoadingAfterFetch_TryOnly(res) == ~res.ok

\* finally { setLoading(false) }: the loading flag fetchSession leaves
LoadingAfterFetch(res) == FALSE

\* fetchSession after the await: the React state and the cookie jar it leaves
\* (try / catch / finally), as [user, loading, error, jar, fresh]; fresh: a
\* new user object was stored; current: the user state of the hook instance
FetchSessionContinuationOf(current, res, body, jar) ==
    IF res.ok
    THEN IF body.status = "SUCCESS" /\ body.user # Null
         THEN [user |-> body.user, loading |-> LoadingAfterFetch(res), error |-> NoError,
               jar |-> setCookie(jar, "accessToken", body.token,
                                 SessionMaxAge(body.expiresIn)),
               fresh |-> TRUE]
         ELSE [user |-> current, loading |-> LoadingAfterFetch(res), error |-> NoError,
               jar |-> jar, fresh |-> FALSE]
    ELSE IF res.axios
         THEN [user |-> Null, loading |-> LoadingAfterFetch(res),
               error |-> SessionErrorString(res), jar |-> jar, fresh |-> FALSE]
         ELSE [user |-> current, loading |-> LoadingAfterFetch(res),
               error |-> SessionErrorString(res), jar |-> jar, fresh |-> FALSE]

\* fetchSession of the useAuth() of the dashboard layout
FetchSessionContinuation(res, body, jar) ==
    FetchSessionContinuationOf(user, res, body, jar)

\* LogoutSettles without the catch block: a failed call rejects logout()
LogoutSettles_Rethrows(res) == IF res.ok THEN "resolved" ELSE "rejected"

\* logout(): try { await post } catch (err) { console.error } finally { ... }:
\* how its promise settles when the call to /auth/logout settled with res
LogoutSettles(res) == "resolved"

\* hasRole was not called
NoAnswer == [called |-> FALSE, value |-> FALSE]

\* the user as hasRole sees it: user === null, or a user whose authorities
\* field is missing (listed false) or is an array of {authority: string}
NoUser == [id |-> 0, listed |-> FALSE, authorities |-> <<>>]

\* hasRole that is content with any authority
hasRole_AnyAuthority(u, role) == u # NoUser /\ u.listed /\ u.authorities # <<>>

\* user?.authorities?.some(auth => auth.authority === role) ?? false
hasRole(u, role) ==
    IF u = NoUser \/ ~u.listed
    THEN FALSE
    ELSE \E i \in DOMAIN u.authorities : u.authorities[i].authority = role

\* UserNav: user.authorities.some(auth => auth.authority === 'ADMIN'), of a
\* user that is present
isAdmin(u) == \E i \in DOMAIN u.authorities : u.authorities[i].authority = "ADMIN"

\* ----------------------------------------------------- the login page
LoginRefresh == "ref1"
MonthMaxAge == 30 * 24 * 60 * 60

\* payloads of POST /auth/authenticate: {data: {accessToken, refreshToken}}
LoginBodies ==
    {[accessToken |-> a, refreshToken |-> f] :
        a \in {Undefined} \cup (IF issued < MaxIssued
                                THEN {TokenNames[issued + 1]} ELSE {}),
        f \in {Undefined, LoginRefresh}}

\* LoginMaxAge that does not look at the checkbox
LoginMaxAge_AlwaysDay(remember) == DayMaxAge

\* maxAge: rememberMe ? 30 * 24 * 60 * 60 : 24 * 60 * 60
LoginMaxAge(remember) == IF remember THEN MonthMaxAge ELSE DayMaxAge

\* if (data.accessToken): the login is taken as done
LoginAccepted(res, body) == res.ok /\ Truthy(body.accessToken)

\* onSubmit after the await: the cookies it leaves
LoginCookies(res, body, jar, remember) ==
    IF ~LoginAccepted(res, body)
    THEN jar
    ELSE LET withAccess == setCookie(jar, "accessToken", body.accessToken,
                                     LoginMaxAge(remember))
         IN  IF Truthy(body.refreshToken)
             THEN setCookie(withAccess, "refreshToken", body.refreshToken,
                            LoginMaxAge(remember))
             ELSE withAccess

\* the layout renders the sidebar only when it is not loading and is
\* authenticated: a render of the layout that is not authenticated unmounts
\* SidebarContent and its state is gone; u is the user its hook holds
\* otherwise
SidebarRenders(u) ==
    /\ sidebarMounted' = (sidebarMounted /\ isAuthenticated')
    /\ sidebarUser' = IF sidebarMounted /\ isAuthenticated' THEN u ELSE Null

\* the caller's promise settles with res: the request is done and the caller
\* continues.  fetchSession sets the state of the hook, logout runs its
\* finally block, onSubmit of the login page stores the tokens; the hook
\* renders again when its state changed.  jar and nav
\* are the cookies and the navigation count the interceptor leaves
Deliver(r, res, body, jar, nav) ==
    /\ pc' = [pc EXCEPT ![r] = "done"]
    /\ result' = [result EXCEPT ![r] = res]
    /\ IF kind[r] = "session"
       THEN LET c == FetchSessionContinuation(res, body, jar)
                changed == c.fresh \/ c.user # user \/ c.loading # loading
                           \/ c.error # error
            IN  /\ user' = c.user
                /\ loading' = c.loading
                /\ error' = c.error
                /\ cookies' = c.jar
                /\ isAuthenticated' = IF changed
                                      THEN IsAuthenticatedValue(c.user, c.jar)
                                      ELSE isAuthenticated
                /\ sessionBody' = IF res.ok THEN body ELSE NoBody
                /\ navigations' = nav
                /\ UNCHANGED <<logoutPromise, isRedirecting>>
       ELSE IF kind[r] = "logout"
       THEN /\ cookies' = ClearAuthCookies(jar)
            /\ user' = Null
            /\ navigations' = nav + 1
            /\ logoutPromise' = LogoutSettles(res)
            /\ isAuthenticated' = IF user # Null
                                  THEN IsAuthenticatedValue(Null, ClearAuthCookies(jar))
                                  ELSE isAuthenticated
            /\ UNCHANGED <<loading, error, sessionBody, isRedirecting>>
       ELSE IF kind[r] = "login"
       THEN /\ cookies' = LoginCookies(res, body, jar, rememberMe)
            /\ isRedirecting' = (isRedirecting \/ LoginAccepted(res, body))
            /\ navigations' = nav
            /\ UNCHANGED <<user, loading, error, isAuthenticated, sessionBody,
                           logoutPromise>>
       ELSE IF kind[r] = "sidebar"
       THEN /\ cookies' = FetchSessionContinuationOf(sidebarUser, res, body, jar).jar
            /\ navigations' = nav
            /\ UNCHANGED <<user, loading, error, isAuthenticated, sessionBody,
                           logoutPromise, isRedirecting>>
       ELSE /\ cookies' = jar
            /\ UNCHANGED isRedirecting
            /\ navigations' = nav
            /\ UNCHANGED <<user, loading, error, isAuthenticated, sessionBody,
                           logoutPromise>>
    /\ tokensCleared' = IF kind[r] = "logout" \/ res.src = "refresh"
                        THEN TRUE
                        ELSE IF kind[r] = "login" /\ LoginAccepted(res, body)
                        THEN FALSE
                        ELSE tokensCleared
    /\ SidebarRenders(IF kind[r] = "sidebar"
                      THEN FetchSessionContinuationOf(sidebarUser, res, body, jar).user
                      ELSE sidebarUser)

\* axiosInstance(config): the request interceptor runs and the request goes out
Dispatch(r, h, jar) ==
    LET auth == RequestInterceptor(h, jar)
    IN  /\ pc' = [pc EXCEPT ![r] = "inflight"]
        /\ sent' = [sent EXCEPT ![r] =
                        [auth |-> auth, store |-> getCookie(jar, "accessToken")]]
        /\ dispatches' = [dispatches EXCEPT ![r] = @ + 1]

\* request slots are handed out in order: slot r is taken when the slots
\* below it are in use
NextSlot(r) == pc[r] = "idle" /\ \A q \in Req : q < r => pc[q] # "idle"

\* ------------------------------------------------------------ actions
ClientInit ==
    /\ isBrowser \in BOOLEAN
    /\ location \in (IF isBrowser THEN ClientPages ELSE {NoLocation})
    /\ locationSearch = <<>>
    /\ tokensCleared = FALSE
    /\ navigations = 0
    /\ cookies = [n \in CookieNames |->
                    [value |-> IF n = "accessToken" THEN InitialAccess ELSE InitialRefresh,
                     maxAge |-> DayMaxAge]]
    /\ issued = 0
    /\ pc = [r \in Req |-> "idle"]
    /\ kind = [r \in Req |-> "api"]
    /\ retry = [r \in Req |-> FALSE]
    /\ sent = [r \in Req |-> NoDispatch]
    /\ dispatches = [r \in Req |-> 0]
    /\ lastReply = [r \in Req |-> 0]
    /\ refreshCalls = [r \in Req |-> 0]
    /\ refreshed = [r \in Req |-> NoRefresh]
    /\ result = [r \in Req |-> NoResult]
    /\ user = Null
    /\ loading = TRUE
    /\ error = NoError
    /\ isAuthenticated = FALSE
    /\ mounted = FALSE
    /\ logoutPromise = "none"
    /\ sessionBody = NoBody
    /\ rememberMe = FALSE
    /\ isRedirecting = FALSE
    /\ sidebarMounted = FALSE
    /\ sidebarUser = Null

\* the application in the browser (or rendering on the server); no request
\* is before the route guard
Init ==
    /\ ClientInit
    /\ requestPath = NoLocation
    /\ requestCookie = Undefined
    /\ guardResponse = NoResponse
    /\ roleUser = NoUser
    /\ roleAsked = Empty
    /\ roleAnswer = NoAnswer

\* a page or query calls axiosInstance.get/post/put/delete
SendRequest(r) ==
    /\ UNCHANGED tokensCleared
    /\ UNCHANGED locationSearch
    /\ UNCHANGED sidebarVars
    /\ UNCHANGED pageVars
    /\ UNCHANGED guardVars
    /\ UNCHANGED roleVars
    /\ NextSlot(r)
    /\ kind' = [kind EXCEPT ![r] = "api"]
    /\ Dispatch(r, NoHeader, cookies)
    /\ UNCHANGED <<isBrowser, location, navigations, cookies, issued, retry,
                   lastReply, refreshCalls, refreshed, result>>
    /\ UNCHANGED hookVars

\* useEffect(() => { fetchSession() }, []) of the dashboard layout
MountFetchSession(r) ==
    /\ UNCHANGED tokensCleared
    /\ UNCHANGED locationSearch
    /\ UNCHANGED sidebarVars
    /\ UNCHANGED pageVars
    /\ UNCHANGED guardVars
    /\ UNCHANGED roleVars
    /\ isBrowser /\ ~mounted
    /\ Includes(location, DashboardPath)
    /\ NextSlot(r)
    /\ mounted' = TRUE
    /\ kind' = [kind EXCEPT ![r] = "session"]
    /\ Dispatch(r, NoHeader, cookies)
    /\ UNCHANGED <<isBrowser, location, navigations, cookies, issued, retry,
                   lastReply, refreshCalls, refreshed, result>>
    /\ UNCHANGED <<user, loading, error, isAuthenticated, logoutPromise,
                   sessionBody>>

\* logout() called from the user menu, which the layout shows once the
\* session is resolved with a user: the call to /auth/logout goes out
Logout(r) ==
    /\ UNCHANGED tokensCleared
    /\ UNCHANGED locationSearch
    /\ UNCHANGED sidebarVars
    /\ UNCHANGED pageVars
    /\ UNCHANGED guardVars
    /\ UNCHANGED roleVars
    /\ isBrowser /\ mounted
    /\ ~loading /\ isAuthenticated /\ user # Null
    /\ NextSlot(r)
    /\ kind' = [kind EXCEPT ![r] = "logout"]
    /\ Dispatch(r, NoHeader, cookies)
    /\ UNCHANGED <<isBrowser, location, navigations, cookies, issued, retry,
                   lastReply, refreshCalls, refreshed, result>>
    /\ UNCHANGED hookVars

\* the login form is submitted: onSubmit up to the await.  The button is
\* disabled while isSubmitting, which a failed login resets
Login(r, remember) ==
    /\ UNCHANGED tokensCleared
    /\ UNCHANGED locationSearch
    /\ UNCHANGED sidebarVars
    /\ isBrowser /\ location = LoginPath
    /\ ~isRedirecting
    /\ \A q \in Req : kind[q] = "login" =>
            (pc[q] = "idle" \/ (pc[q] = "done" /\ ~result[q].ok))
    /\ NextSlot(r)
    /\ rememberMe' = remember
    /\ kind' = [kind EXCEPT ![r] = "login"]
    /\ Dispatch(r, NoHeader, cookies)
    /\ UNCHANGED <<isBrowser, location, navigations, cookies, issued, retry,
                   lastReply, refreshCalls, refreshed, result>>
    /\ UNCHANGED hookVars
    /\ UNCHANGED isRedirecting
    /\ UNCHANGED guardVars
    /\ UNCHANGED roleVars

\* const callbackUrl = searchParams.get('callbackUrl') || '/dashboard' is
\* computed by onSubmit and not used: the redirect effect calls
\* router.replace('/dashboard')
PostLoginTarget(search) == DashboardPath

\* the countdown of the login page ends: router.replace('/dashboard'), a
\* client-side navigation that the route guard lets through or sends back
\* to /login; the login page unmounts, pending requests stay
RedirectAfterLogin ==
    /\ UNCHANGED tokensCleared
    /\ UNCHANGED sidebarVars
    /\ isBrowser /\ location = LoginPath
    /\ isRedirecting
    /\ LET target == PostLoginTarget(locationSearch)
           answer == middleware(target, getCookie(cookies, "accessToken"))
       IN  IF answer.type = "redirect"
           THEN location' = answer.pathname /\ locationSearch' = answer.search.value
           ELSE location' = target /\ locationSearch' = <<>>
    /\ rememberMe' = FALSE
    /\ isRedirecting' = FALSE
    /\ UNCHANGED <<isBrowser, navigations, cookies, issued, pc, kind, retry,
                   sent, dispatches, lastReply, refreshCalls, refreshed, result>>
    /\ UNCHANGED hookVars
    /\ UNCHANGED guardVars
    /\ UNCHANGED roleVars

\* the layout has rendered <Sidebar/>: SidebarContent mounts, calls useAuth()
\* and the mount effect of that hook calls fetchSession.  A sidebar is not
\* mounted again while a request of an earlier one is pending
MountSidebar(r) ==
    /\ UNCHANGED tokensCleared
    /\ UNCHANGED locationSearch
    /\ isBrowser /\ mounted
    /\ ~loading /\ isAuthenticated
    /\ ~sidebarMounted
    /\ \A q \in Req : kind[q] = "sidebar" => pc[q] \in {"idle", "done"}
    /\ NextSlot(r)
    /\ sidebarMounted' = TRUE
    /\ sidebarUser' = Null
    /\ kind' = [kind EXCEPT ![r] = "sidebar"]
    /\ Dispatch(r, NoHeader, cookies)
    /\ UNCHANGED <<isBrowser, location, navigations, cookies, issued, retry,
                   lastReply, refreshCalls, refreshed, result>>
    /\ UNCHANGED hookVars
    /\ UNCHANGED pageVars
    /\ UNCHANGED guardVars
    /\ UNCHANGED roleVars

\* refreshSession(): the manual re-check, fetchSession called again
RefreshSession(r) ==
    /\ UNCHANGED tokensCleared
    /\ UNCHANGED locationSearch
    /\ UNCHANGED sidebarVars
    /\ UNCHANGED pageVars
    /\ UNCHANGED guardVars
    /\ UNCHANGED roleVars
    /\ mounted
    /\ NextSlot(r)
    /\ kind' = [kind EXCEPT ![r] = "session"]
    /\ Dispatch(r, NoHeader, cookies)
    /\ UNCHANGED <<isBrowser, location, navigations, cookies, issued, retry,
                   lastReply, refreshCalls, refreshed, result>>
    /\ UNCHANGED hookVars

\* the backend answers a dispatch with a 2xx: (response) => response
RespondSuccess(r, body) ==
    /\ UNCHANGED locationSearch
    /\ UNCHANGED rememberMe
    /\ UNCHANGED guardVars
    /\ UNCHANGED roleVars
    /\ pc[r] = "inflight"
    /\ lastReply' = [lastReply EXCEPT ![r] = 200]
    /\ sent' = [sent EXCEPT ![r] = NoDispatch]
    /\ Deliver(r, Response(200), body, cookies, navigations)
    /\ issued' = IF kind[r] = "login" /\ Truthy(body.accessToken)
                 THEN issued + 1 ELSE issued
    /\ UNCHANGED <<isBrowser, location, kind, retry,
                   dispatches, refreshCalls, refreshed, mounted>>

\* the dispatch fails: async (error) => { ... } up to the await of the
\* refresh call, or to the final Promise.reject(error)
RespondError(r, status) ==
    /\ UNCHANGED locationSearch
    /\ UNCHANGED rememberMe
    /\ UNCHANGED guardVars
    /\ UNCHANGED roleVars
    /\ pc[r] = "inflight"
    /\ lastReply' = [lastReply EXCEPT ![r] = status]
    /\ sent' = [sent EXCEPT ![r] = NoDispatch]
    /\ IF ShouldRefresh(status, retry[r])
       THEN /\ retry' = [retry EXCEPT ![r] = TRUE]
            /\ refreshCalls' = [refreshCalls EXCEPT ![r] = @ + 1]
            /\ pc' = [pc EXCEPT ![r] = "refreshing"]
            /\ UNCHANGED <<cookies, result, navigations, isRedirecting>>
            /\ UNCHANGED sidebarVars
            /\ UNCHANGED tokensCleared
            /\ UNCHANGED <<user, loading, error, isAuthenticated, logoutPromise,
                           sessionBody>>
       ELSE /\ Deliver(r, PassThrough(RequestError(status)), NoBody, cookies,
                       navigations)
            /\ UNCHANGED <<retry, refreshCalls>>
    /\ UNCHANGED <<isBrowser, location, issued, kind,
                   dispatches, refreshed, mounted>>

\* the refresh call returns a response whose payload can be destructured:
\* the rest of the try block, up to the re-dispatch
RefreshSucceeds(r, o) ==
    /\ UNCHANGED tokensCleared
    /\ UNCHANGED locationSearch
    /\ UNCHANGED sidebarVars
    /\ UNCHANGED pageVars
    /\ UNCHANGED guardVars
    /\ UNCHANGED roleVars
    /\ pc[r] = "refreshing"
    /\ ~RefreshThrows(o)
    /\ o.type = "token" => issued < MaxIssued
    /\ issued' = IF o.type = "token" THEN issued + 1 ELSE issued
    /\ refreshed' = [refreshed EXCEPT ![r] = o]
    /\ cookies' = RefreshedCookies(cookies, o.token)
    /\ Dispatch(r, RetryHeader(o.token), cookies')
    /\ UNCHANGED <<isBrowser, location, navigations, kind, retry, lastReply,
                   refreshCalls, result>>
    /\ UNCHANGED hookVars

\* the refresh call rejects or its payload is missing: the catch block
RefreshFails(r, o) ==
    /\ UNCHANGED locationSearch
    /\ UNCHANGED rememberMe
    /\ UNCHANGED guardVars
    /\ UNCHANGED roleVars
    /\ pc[r] = "refreshing"
    /\ RefreshThrows(o)
    /\ refreshed' = [refreshed EXCEPT ![r] = o]
    /\ Deliver(r, RefreshRejection(o, RequestError(401)), NoBody,
               RefreshFailureCookies(cookies),
               IF ShouldNavigate(isBrowser, location)
               THEN navigations + 1 ELSE navigations)
    /\ UNCHANGED <<isBrowser, location, issued, kind, retry, sent,
                   dispatches, lastReply, refreshCalls, mounted>>

\* a cookie reaches its max-age and the browser drops it.  A max-age is
\* hours or days and a request cycle is seconds: no cookie runs out while a
\* request is pending
ExpireCookie(n) ==
    /\ UNCHANGED tokensCleared
    /\ UNCHANGED locationSearch
    /\ UNCHANGED sidebarVars
    /\ UNCHANGED pageVars
    /\ UNCHANGED guardVars
    /\ UNCHANGED roleVars
    /\ getCookie(cookies, n) # Empty
    /\ \A r \in Req : pc[r] \in {"idle", "done"}
    /\ cookies' = [cookies EXCEPT ![n] = [value |-> Empty, maxAge |-> 0]]
    /\ UNCHANGED <<isBrowser, location, navigations, issued, pc, kind, retry,
                   sent, dispatches, lastReply, refreshCalls, refreshed, result>>
    /\ UNCHANGED hookVars

\* the dashboard layout renders again for a reason of its own (scroll offset,
\* sidebar toggle): useAuth() runs again and recomputes isAuthenticated
Rerender ==
    /\ UNCHANGED tokensCleared
    /\ UNCHANGED locationSearch
    /\ UNCHANGED pageVars
    /\ UNCHANGED guardVars
    /\ UNCHANGED roleVars
    /\ mounted
    /\ isAuthenticated' = IsAuthenticatedValue(user, cookies)
    /\ SidebarRenders(sidebarUser)
    /\ UNCHANGED clientVars
    /\ UNCHANGED <<user, loading, error, mounted, logoutPromise, sessionBody>>

\* a new document is loaded: the requests and the React state of the old one
\* are gone
FreshDocument ==
    /\ navigations' = 0
    /\ pc' = [r \in Req |-> "idle"]
    /\ kind' = [r \in Req |-> "api"]
    /\ retry' = [r \in Req |-> FALSE]
    /\ sent' = [r \in Req |-> NoDispatch]
    /\ dispatches' = [r \in Req |-> 0]
    /\ lastReply' = [r \in Req |-> 0]
    /\ refreshCalls' = [r \in Req |-> 0]
    /\ refreshed' = [r \in Req |-> NoRefresh]
    /\ result' = [r \in Req |-> NoResult]
    /\ user' = Null
    /\ loading' = TRUE
    /\ error' = NoError
    /\ isAuthenticated' = FALSE
    /\ mounted' = FALSE
    /\ logoutPromise' = "none"
    /\ sessionBody' = NoBody
    /\ rememberMe' = FALSE
    /\ isRedirecting' = FALSE
    /\ sidebarMounted' = FALSE
    /\ sidebarUser' = Null

\* the navigation started by window.location.href = '/login' commits: the
\* document is replaced, its requests and its React state are gone
LoadLoginPage ==
    /\ UNCHANGED tokensCleared
    /\ navigations > 0
    /\ location' = LoginPath
    /\ locationSearch' = <<>>
    /\ FreshDocument
    /\ UNCHANGED <<isBrowser, cookies, issued>>
    /\ UNCHANGED guardVars
    /\ UNCHANGED roleVars

\* the pages a user may ask for by address
RequestedPages == {SettingsPath}

\* the user opens a page by its address while the browser holds no access
\* token: a new document is requested, the route guard answers, and the
\* browser follows its redirect
RequestPage(path) ==
    /\ UNCHANGED tokensCleared
    /\ isBrowser
    /\ ~Truthy(getCookie(cookies, "accessToken"))
    /\ LET answer == middleware(path, getCookie(cookies, "accessToken"))
       IN  IF answer.type = "redirect"
           THEN location' = answer.pathname /\ locationSearch' = answer.search.value
           ELSE location' = path /\ locationSearch' = <<>>
    /\ FreshDocument
    /\ UNCHANGED <<isBrowser, cookies, issued>>
    /\ UNCHANGED guardVars
    /\ UNCHANGED roleVars

\* the token values GET /auth/session may return for request r
SessionTokens(r) == IF sent[r].auth = NoHeader THEN {Undefined} ELSE {sent[r].auth[2]}

\* the payloads a 2xx answer to request r may carry
ResponseBodies(r) ==
    CASE kind[r] \in {"session", "sidebar"} -> SessionBodies(SessionTokens(r))
      [] kind[r] = "login" -> LoginBodies
      [] OTHER -> {NoBody}

Next ==
    \/ \E r \in Req : SendRequest(r)
    \/ \E r \in Req : MountFetchSession(r)
    \/ \E r \in Req : MountSidebar(r)
    \/ \E r \in Req : RefreshSession(r)
    \/ \E r \in Req : Logout(r)
    \/ \E r \in Req : \E remember \in BOOLEAN : Login(r, remember)
    \/ RedirectAfterLogin
    \/ \E r \in Req : \E body \in ResponseBodies(r) : RespondSuccess(r, body)
    \/ \E r \in Req : \E status \in ErrorStatuses : RespondError(r, status)
    \/ \E r \in Req : \E o \in RefreshOutcomes : RefreshSucceeds(r, o)
    \/ \E r \in Req : \E o \in RefreshOutcomes : RefreshFails(r, o)
    \/ \E n \in CookieNames : ExpireCookie(n)
    \/ Rerender
    \/ LoadLoginPage
    \/ \E path \in RequestedPages : RequestPage(path)

Spec == Init /\ [][Next]_vars

\* ---------------------------------- the layout guard and the route guard
\* LayoutSurvives of a router that mounts the layout anew on every navigation
LayoutSurvives_Never(target) == FALSE

\* a client-side navigation keeps the layouts the old and the new page share,
\* with their state: the dashboard layout stays mounted when the page
\* navigated to is under /dashboard
LayoutSurvives(target) == Includes(target, DashboardPath)

\* the effect of the dashboard layout: if (!loading && !isAuthenticated)
\* router.push('/login'), a client-side navigation that the route guard lets
\* through or sends back to /dashboard.  When the layout unmounts the state
\* of its hook is gone
LayoutRedirect ==
    /\ isBrowser /\ mounted
    /\ Includes(location, DashboardPath)
    /\ ~loading /\ ~isAuthenticated
    /\ LET answer == middleware(LoginPath, getCookie(cookies, "accessToken"))
           target == IF answer.type = "redirect" THEN answer.pathname ELSE LoginPath
       IN  /\ location' = target
           /\ locationSearch' = <<>>
           /\ IF LayoutSurvives(target)
              THEN UNCHANGED <<hookVars, sidebarVars>>
              ELSE /\ user' = Null
                   /\ loading' = TRUE
                   /\ error' = NoError
                   /\ isAuthenticated' = FALSE
                   /\ mounted' = FALSE
                   /\ logoutPromise' = "none"
                   /\ sessionBody' = NoBody
                   /\ sidebarMounted' = FALSE
                   /\ sidebarUser' = Null
    /\ UNCHANGED <<isBrowser, navigations, cookies, tokensCleared, issued, pc,
                   kind, retry, sent, dispatches, lastReply, refreshCalls,
                   refreshed, result>>
    /\ UNCHANGED pageVars
    /\ UNCHANGED guardVars
    /\ UNCHANGED roleVars

\* nothing refers to a settled request any more: its slot is free again
ForgetRequest(r) ==
    /\ pc[r] = "done"
    /\ pc' = [pc EXCEPT ![r] = "idle"]
    /\ kind' = [kind EXCEPT ![r] = "api"]
    /\ retry' = [retry EXCEPT ![r] = FALSE]
    /\ sent' = [sent EXCEPT ![r] = NoDispatch]
    /\ dispatches' = [dispatches EXCEPT ![r] = 0]
    /\ lastReply' = [lastReply EXCEPT ![r] = 0]
    /\ refreshCalls' = [refreshCalls EXCEPT ![r] = 0]
    /\ refreshed' = [refreshed EXCEPT ![r] = NoRefresh]
    /\ result' = [result EXCEPT ![r] = NoResult]
    /\ UNCHANGED <<isBrowser, location, locationSearch, navigations, cookies,
                   tokensCleared, issued>>
    /\ UNCHANGED hookVars
    /\ UNCHANGED pageVars
    /\ UNCHANGED sidebarVars
    /\ UNCHANGED guardVars
    /\ UNCHANGED roleVars

\* the network answers request r, or its refresh call
Answers(r) ==
    \/ \E body \in ResponseBodies(r) : RespondSuccess(r, body)
    \/ \E status \in ErrorStatuses : RespondError(r, status)
    \/ \E o \in RefreshOutcomes : RefreshSucceeds(r, o)
    \/ \E o \in RefreshOutcomes : RefreshFails(r, o)

\* the dashboard left to itself: its session resolution and its two guards,
\* without a user who logs in, logs out or types addresses
NextLoop ==
    \/ \E r \in Req : MountFetchSession(r)
    \/ \E r \in Req : Answers(r)
    \/ \E r \in Req : ForgetRequest(r)
    \/ Rerender
    \/ LayoutRedirect
    \/ LoadLoginPage

\* effects run, navigations commit and, as the transport lets every call
\* settle, every request is answered
SpecLoop ==
    /\ Init
    /\ [][NextLoop]_vars
    /\ WF_vars(LayoutRedirect)
    /\ WF_vars(LoadLoginPage)
    /\ WF_vars(\E r \in Req : MountFetchSession(r))
    /\ \A r \in Req : WF_vars(Answers(r))

\* the whole program when the transport lets every call settle: every
\* pending request, and every pending refresh call, is answered
SpecFair == Init /\ [][Next]_vars /\ \A r \in Req : WF_vars(Answers(r))

\* ------------------------------------------- the route guard on its own
\* pathnames of incoming requests
GuardPaths ==
    {LoginPath, RegisterPath, DashboardPath, SettingsPath,
     <<"/">>,
     DashboardPath \o <<"/">>,
     DashboardPath \o <<"x">>,
     DashboardPath \o <<"/", "a", "%", "2", "0", "b">>,
     DashboardPath \o <<"/", "a", "+", "b">>,
     DashboardPath \o <<"/", "p", "o", "s", "/", "n", "e", "w", "-", "s", "a", "l", "e">>,
     LoginPath \o <<"/">>,
     LoginPath \o <<"x">>,
     RegisterPath \o DashboardPath,
     <<"/", "a", "b", "o", "u", "t">>}

\* values of the accessToken cookie of an incoming request: no cookie, an
\* empty cookie, tokens of the backend, anything else
GuardCookies == {Undefined, Empty, InitialAccess, TokenNames[1], "garbage"}

\* a request arrives at the server, which holds no browser state
InitGuard ==
    /\ ClientInit
    /\ isBrowser = FALSE
    /\ requestPath \in GuardPaths
    /\ requestCookie \in GuardCookies
    /\ guardResponse = NoResponse
    /\ roleUser = NoUser
    /\ roleAsked = Empty
    /\ roleAnswer = NoAnswer

\* the middleware runs on the request
GuardRequest ==
    /\ UNCHANGED tokensCleared
    /\ UNCHANGED locationSearch
    /\ UNCHANGED sidebarVars
    /\ UNCHANGED roleVars
    /\ UNCHANGED pageVars
    /\ guardResponse = NoResponse
    /\ guardResponse' = middleware(requestPath, requestCookie)
    /\ UNCHANGED <<requestPath, requestCookie>>
    /\ UNCHANGED clientVars
    /\ UNCHANGED hookVars

NextGuard == GuardRequest

SpecGuard == InitGuard /\ [][NextGuard]_vars

\* ------------------------------------------------- hasRole on its own
\* authority strings and role names; some differ in case or by a prefix only
AuthorityNames == {"ADMIN", "admin", "USER", "ADMINISTRATOR"}
RoleNames == AuthorityNames \cup {"MANAGER", Empty}

MaxAuthorities == 2

\* the authorities arrays of at most MaxAuthorities entries
AuthorityArrays ==
    UNION {[1..n -> {[authority |-> a] : a \in AuthorityNames}] : n \in 0..MaxAuthorities}

\* the users hasRole may find: none, one whose payload had no authorities,
\* one with an authorities array
RoleUsers ==
    {NoUser, [id |-> 1, listed |-> FALSE, authorities |-> <<>>]}
    \cup {[id |-> 1, listed |-> TRUE, authorities |-> as] : as \in AuthorityArrays}

\* a component is about to call hasRole(role)
InitRoles ==
    /\ ClientInit
    /\ isBrowser = TRUE
    /\ location = SettingsPath
    /\ requestPath = NoLocation
    /\ requestCookie = Undefined
    /\ guardResponse = NoResponse
    /\ roleUser \in RoleUsers
    /\ roleAsked \in RoleNames
    /\ roleAnswer = NoAnswer

\* hasRole(role) is called
HasRoleCall ==
    /\ UNCHANGED tokensCleared
    /\ UNCHANGED locationSearch
    /\ UNCHANGED sidebarVars
    /\ roleAnswer = NoAnswer
    /\ roleAnswer' = [called |-> TRUE, value |-> hasRole(roleUser, roleAsked)]
    /\ UNCHANGED <<roleUser, roleAsked>>
    /\ UNCHANGED clientVars
    /\ UNCHANGED hookVars
    /\ UNCHANGED pageVars
    /\ UNCHANGED guardVars

NextRoles == HasRoleCall

SpecRoles == InitRoles /\ [][NextRoles]_vars

\* ===================================================================
\* Properties of the HTTP client
\* ===================================================================

\* request r got a reply of the given status in this step
Got(r, status) ==
    /\ pc[r] = "inflight"
    /\ pc'[r] \in {"refreshing", "done"}
    /\ lastReply'[r] = status

\* both auth cookies are cleared: empty value, max-age 0
Cleared(jar) ==
    \A n \in CookieNames : jar[n] = [value |-> Empty, maxAge |-> 0]

\* what the caller of request r does of its own when its promise settles, in
\* the same task: logout() clears the cookies and navigates to /login
CallerNavigations(r) == IF kind[r] = "logout" THEN 1 ELSE 0
CallerCookies(r, jar) == IF kind[r] = "logout" THEN ClearAuthCookies(jar) ELSE jar

\* C1: a 401 on a request without the retry marker makes exactly one call to
\* the refresh endpoint and at most one re-dispatch; a 401 on a request that
\* carries the marker makes no refresh call and no re-dispatch.  Per request:
\* at most one refresh call, one exactly when the marker is set and always
\* once a 401 has been handled, and never more dispatches than one plus the
\* refresh calls.
C1_RefreshOncePerRequest ==
    \A r \in Req :
        /\ refreshCalls[r] = (IF retry[r] THEN 1 ELSE 0)
        /\ dispatches[r] <= 1 + refreshCalls[r]
        /\ (lastReply[r] = 401 => refreshCalls[r] = 1)

\* C1 witness: a retried request was answered 401 again and was settled
\* after one refresh call and two dispatches
C1_Witness ==
    \E r \in Req :
        /\ pc[r] = "done" /\ lastReply[r] = 401
        /\ dispatches[r] = 2 /\ refreshCalls[r] = 1

\* C2: every dispatch (first attempt or retry) carries 'Bearer t' for the
\* access token t in the cookie store at the moment of dispatch, and no
\* Authorization header when the store holds no access token then.
C2_DispatchCarriesStoredToken ==
    \A r \in Req :
        pc[r] = "inflight" =>
            sent[r].auth = (IF Truthy(sent[r].store)
                            THEN Bearer(sent[r].store) ELSE NoHeader)

\* C3: when the refresh call of a request's cycle issued a token, the access
\* token in the store at the moment the retried request settles is that token.
C3_StoreHoldsIssuedTokenAtEnd ==
    [][\A r \in Req :
          (pc[r] = "inflight" /\ pc'[r] = "done" /\ refreshed[r].type = "token")
              => getCookie(cookies, "accessToken") = refreshed[r].token]_vars

\* C4: the re-dispatched request carries as bearer credential exactly the
\* token issued by the refresh call of its own cycle.
C4_RetryCarriesIssuedToken ==
    \A r \in Req :
        (pc[r] = "inflight" /\ dispatches[r] = 2 /\ refreshed[r].type = "token")
            => sent[r].auth = Bearer(refreshed[r].token)

\* C4 witness: two retries are on the wire at once, each after its own refresh
C4_Witness ==
    \E r, q \in Req :
        /\ r # q
        /\ pc[r] = "inflight" /\ dispatches[r] = 2 /\ refreshed[r].type = "token"
        /\ pc[q] = "inflight" /\ dispatches[q] = 2 /\ refreshed[q].type = "token"

\* C5: when the refresh call fails (the endpoint rejects, or the response has
\* no payload to destructure), both the accessToken and the refreshToken
\* cookie are cleared (empty value, max-age 0) by the step that returns the
\* failure to the caller.
C5_RefreshFailureClearsBoth ==
    [][\A r \in Req :
          (pc[r] = "refreshing" /\ pc'[r] = "done") => Cleared(cookies')]_vars

\* C5 witness: a refresh answered without payload failed a request while
\* nothing else was pending, and both cookies are cleared
C5_Witness ==
    \E r \in Req :
        /\ pc[r] = "done" /\ refreshed[r].type = "nodata"
        /\ \A q \in Req : pc[q] \in {"idle", "done"}
        /\ Cleared(cookies)

C7_RetryOutcomeReturnedAsIs ==
    [][\A r \in Req :
          (dispatches[r] = 2 /\ \E st \in ErrorStatuses \cup {200} : Got(r, st)) =>
              /\ pc'[r] = "done"
              /\ result'[r] = (IF lastReply'[r] = 200 THEN Response(200)
                               ELSE RequestError(lastReply'[r]))
              /\ refreshCalls' = refreshCalls
              /\ dispatches' = dispatches
              /\ navigations' = navigations + CallerNavigations(r)
              /\ (lastReply'[r] # 200 => cookies' = CallerCookies(r, cookies))]_vars

\* C7 witness: a retry failed with 401 and the caller holds that failure
C7_Witness ==
    \E r \in Req :
        /\ pc[r] = "done" /\ dispatches[r] = 2
        /\ result[r] = RequestError(401)

\* C8: a failure whose status is not 401 is returned to the caller unchanged,
\* with no refresh call, no retry, no write to the cookies and no navigation.
C8_Non401PassesThrough ==
    [][\A r \in Req : \A st \in ErrorStatuses \ {401} :
          Got(r, st) =>
              /\ pc'[r] = "done"
              /\ result'[r] = RequestError(st)
              /\ refreshCalls' = refreshCalls
              /\ dispatches' = dispatches
              /\ cookies' = CallerCookies(r, cookies)
              /\ navigations' = navigations + CallerNavigations(r)]_vars

\* C8 witness: a first dispatch failed with 500 and was settled with it
C8_Witness ==
    \E r \in Req :
        /\ pc[r] = "done" /\ dispatches[r] = 1 /\ refreshCalls[r] = 0
        /\ result[r] = RequestError(500)

\* C9: when the refresh call fails, the caller's request is rejected and the
\* error it receives is the failure of the refresh call.
C9_RefreshFailureRejectsCaller ==
    \A r \in Req :
        (pc[r] = "done" /\ RefreshThrows(refreshed[r])) =>
            /\ ~result[r].ok
            /\ result[r] = RefreshError(refreshed[r])

\* C9 witness: the refresh endpoint rejected with 500 a request that had
\* failed with 401, and the request is settled
C9_Witness ==
    \E r \in Req :
        /\ pc[r] = "done" /\ lastReply[r] = 401
        /\ refreshed[r].type = "reject" /\ refreshed[r].status = 500

\* ===================================================================
\* Properties of the session hook
\* ===================================================================

\* C10: isAuthenticated is true exactly when a user record is present and the
\* cookie store currently holds a non-empty accessToken, in every state.
C10_IsAuthenticatedTracksUserAndCookie ==
    isAuthenticated <=> (user # Null /\ getCookie(cookies, "accessToken") # Empty)

\* the promise of request r settles in this step
Settles(r) == pc[r] \in {"inflight", "refreshing"} /\ pc'[r] = "done"

\* C11: logout() ends with both stored tokens cleared, the in-memory user
\* absent and a navigation to /login issued, whether the call to the logout
\* endpoint succeeded or failed, and its promise resolves: the failure of the
\* call is not surfaced.
C11_LogoutAlwaysClearsAndNavigates ==
    [][\A r \in Req :
          (kind[r] = "logout" /\ Settles(r)) =>
              /\ Cleared(cookies')
              /\ user' = Null
              /\ navigations' > navigations
              /\ logoutPromise' = "resolved"]_vars

\* C11 witness: the call to the logout endpoint failed with 500 and logout()
\* has ended
C11_Witness ==
    \E r \in Req :
        /\ kind[r] = "logout" /\ pc[r] = "done"
        /\ result[r] = RequestError(500)
        /\ logoutPromise = "resolved" /\ user = Null /\ Cleared(cookies)

\* fetchSession gets its answer in this step: the session request r settles
Resolves(r) == kind[r] = "session" /\ Settles(r)

\* the payload is a 'SUCCESS' with a user
SuccessWithUser(body) == body.status = "SUCCESS" /\ body.user # Null

\* C12: after a session resolution that fails, whatever the kind of failure
\* (an error of the HTTP library or any other thrown error), the in-memory
\* user is absent.
C12_FailedResolutionClearsUser ==
    [][\A r \in Req : (Resolves(r) /\ ~result'[r].ok) => user' = Null]_vars

\* a session resolution completes successfully in this step: fetchSession
\* gets a 'SUCCESS' with a user
ResolvesSuccessfully ==
    \E r \in Req : Resolves(r) /\ result'[r].ok /\ SuccessWithUser(sessionBody')

\* the session goes from unauthenticated to authenticated in this step
BecomesAuthenticated == ~isAuthenticated /\ isAuthenticated'

\* C13 as stated: the session goes from unauthenticated to authenticated
\* only when a session resolution completes successfully; a token written
\* by login or by a refresh never does it.
C13_AuthenticatedOnlyByResolution ==
    [][BecomesAuthenticated => ResolvesSuccessfully]_vars

\* C13: the session goes from unauthenticated to authenticated only when a
\* session resolution completes successfully, or while the user stored by an
\* earlier resolution is still in memory (the access token was lost and a
\* refresh wrote a new one); a token written by login or by a refresh while
\* no user is in memory does not make the session authenticated.
C13_AuthenticatedOnlyWithResolvedUser ==
    [][BecomesAuthenticated => (ResolvesSuccessfully \/ user # Null)]_vars

\* C13 witness: the resolution stored a user and no token, so the session was
\* not authenticated; a refresh made for another request then wrote the
\* access token and the session is authenticated
C13_Witness ==
    \E r, q \in Req :
        /\ kind[r] = "session" /\ pc[r] = "done" /\ kind[q] = "api"
        /\ SuccessWithUser(sessionBody) /\ sessionBody.token = Undefined
        /\ refreshed[q].type = "token"
        /\ getCookie(cookies, "accessToken") = refreshed[q].token
        /\ isAuthenticated

\* C14: on a session response with status 'SUCCESS' and a user, the user is
\* stored, the token of the payload is stored as accessToken with max-age
\* expiresIn / 1000 (milliseconds to seconds), and the error is none.
C14_SessionSuccessStoresUserAndToken ==
    [][\A r \in Req :
          (Resolves(r) /\ result'[r].ok /\ SuccessWithUser(sessionBody')) =>
              /\ user' = sessionBody'.user
              /\ getCookie(cookies', "accessToken") = CookieStringify(sessionBody'.token)
              /\ cookies'["accessToken"].maxAge = sessionBody'.expiresIn \div 1000
              /\ error' = NoError]_vars

\* C14 witness: a session response with an expiry of 3,600,000 ms stored its
\* user and its token with a max-age of 3,600 s
C14_Witness ==
    \E r \in Req :
        /\ kind[r] = "session" /\ pc[r] = "done" /\ result[r].ok
        /\ SuccessWithUser(sessionBody) /\ sessionBody.expiresIn = 3600000
        /\ user = sessionBody.user
        /\ cookies["accessToken"] = [value |-> sessionBody.token, maxAge |-> 3600]

\* C15: after a successful response that is not a 'SUCCESS' with a user, the
\* in-memory user is absent and no error is recorded, on the first
\* resolution and on a manual re-check made while a user was stored.
C15_OtherSuccessShapeLeavesNoUser ==
    [][\A r \in Req :
          (Resolves(r) /\ result'[r].ok /\ ~SuccessWithUser(sessionBody')) =>
              /\ user' = Null
              /\ error' = NoError]_vars

\* the document is replaced by a full page load: its requests are gone
PageLoads ==
    /\ \E r \in Req : pc[r] # "idle"
    /\ \A r \in Req : pc'[r] = "idle"
    /\ ~mounted' /\ loading'

\* C16: the resolver starts loading; once a session resolution has completed,
\* whatever its outcome, it is not loading; and it never goes back to
\* loading, manual re-checks included, for as long as the page lives.
C16_LoadingEndsWithFirstResolution ==
    /\ loading = TRUE
    /\ [](\A r \in Req : (kind[r] = "session" /\ pc[r] = "done") => ~loading)
    /\ [][(~loading /\ loading') => PageLoads]_vars

\* C16 witness: the first resolution failed with an error that is not an
\* HTTP error, a manual re-check is on the wire, and the hook is not loading
C16_Witness ==
    \E r, q \in Req :
        /\ kind[r] = "session" /\ pc[r] = "done"
        /\ ~result[r].ok /\ ~result[r].axios
        /\ kind[q] = "session" /\ pc[q] = "inflight"
        /\ ~loading

C18_OneRefreshPerFailingRequest ==
    [][~PageLoads =>
          \A r \in Req :
              refreshCalls'[r] = refreshCalls[r]
                  + (IF Got(r, 401) /\ dispatches[r] = 1 THEN 1 ELSE 0)]_vars

\* C18 witness: the refresh calls of two requests are pending together
C18_Witness ==
    \E r, q \in Req :
        /\ r # q
        /\ pc[r] = "refreshing" /\ pc[q] = "refreshing"
        /\ refreshCalls[r] = 1 /\ refreshCalls[q] = 1

\* ===================================================================
\* Properties of the route guard (under SpecGuard)
\* ===================================================================

\* the guard has answered the request
Answered == guardResponse # NoResponse

\* exactly /dashboard, or a path that starts with /dashboard/
ProtectedPath(path) == path = DashboardPath \/ StartsWith(path, DashboardPath \o <<"/">>)

\* C19: a request without an access-token value: /login and /register are
\* allowed; a protected path (exactly /dashboard, or starting with
\* /dashboard/) is redirected to /login with the query parameter callbackUrl
\* equal to the requested path; every other path is allowed.
C19_GuardWithoutToken ==
    (Answered /\ ~Truthy(requestCookie)) =>
        IF requestPath \in {LoginPath, RegisterPath}
        THEN guardResponse = NextResponse_next
        ELSE IF ProtectedPath(requestPath)
        THEN /\ guardResponse.type = "redirect"
             /\ guardResponse.pathname = LoginPath
             /\ guardResponse.search.name = "callbackUrl"
             /\ FormDecode(guardResponse.search.value) = requestPath
        ELSE guardResponse = NextResponse_next

\* C19 witness: a path under /dashboard/ that holds an escape, requested
\* with an empty cookie, was redirected to /login
C19_Witness ==
    /\ Answered
    /\ requestCookie = Empty
    /\ requestPath = DashboardPath \o <<"/", "a", "%", "2", "0", "b">>
    /\ guardResponse.type = "redirect"
    /\ guardResponse.search.value # requestPath

\* C20: a request with a non-empty access-token value: /login and /register
\* are redirected to /dashboard and every other path passes, /dashboard and
\* the paths under it included; nothing but the presence of the value
\* counts.
C20_GuardWithToken ==
    (Answered /\ Truthy(requestCookie)) =>
        guardResponse = IF requestPath \in {LoginPath, RegisterPath}
                        THEN NextResponse_redirect(DashboardPath, NoSearch)
                        ELSE NextResponse_next

\* C20 witness: /register requested with a cookie that is no token of the
\* backend was redirected to /dashboard
C20_Witness ==
    /\ Answered
    /\ requestCookie = "garbage"
    /\ requestPath = RegisterPath
    /\ guardResponse.type = "redirect"
    /\ guardResponse.pathname = DashboardPath

\* ===================================================================
\* Properties of the login page and of the token lifetimes
\* ===================================================================

\* the login request r settles in this step and the login is accepted
LoginSucceeds(r) ==
    kind[r] = "login" /\ Settles(r) /\ result'[r].ok /\ ~isRedirecting /\ isRedirecting'

\* the refresh call of request r returns in this step and the retry goes out
RefreshReturns(r) == pc[r] = "refreshing" /\ pc'[r] = "inflight"

\* C21: a successful login stores accessToken with max-age 86400 s when
\* rememberMe is false and 2592000 s when it is true; a refreshToken that is
\* returned is stored with the max-age of the accessToken of that login.
C21_LoginMaxAgeFollowsRememberMe ==
    [][\A r \in Req :
          LoginSucceeds(r) =>
              /\ Truthy(getCookie(cookies', "accessToken"))
              /\ cookies'["accessToken"].maxAge = (IF rememberMe THEN 2592000 ELSE 86400)
              /\ \/ cookies'["refreshToken"] = cookies["refreshToken"]
                 \/ cookies'["refreshToken"] =
                        [value |-> LoginRefresh,
                         maxAge |-> cookies'["accessToken"].maxAge]]_vars

\* C21 witness: a login with rememberMe set stored both tokens for 30 days
C21_Witness ==
    \E r \in Req :
        /\ kind[r] = "login" /\ pc[r] = "done" /\ result[r].ok
        /\ rememberMe /\ isRedirecting
        /\ cookies["accessToken"].maxAge = 2592000
        /\ cookies["refreshToken"] = [value |-> LoginRefresh, maxAge |-> 2592000]

\* C22: an access token stored by a successful refresh has max-age 86400 s,
\* whatever the rememberMe choice of the login that issued the refresh token.
C22_RefreshMaxAgeIsOneDay ==
    [][\A r \in Req :
          RefreshReturns(r) => cookies'["accessToken"].maxAge = 86400]_vars

\* C22 witness: the refresh token was stored for 30 days by a login with
\* rememberMe, and the access token a refresh returned is stored for a day
C22_Witness ==
    \E r \in Req :
        /\ refreshed[r].type = "token"
        /\ cookies["accessToken"] = [value |-> refreshed[r].token, maxAge |-> 86400]
        /\ cookies["refreshToken"] = [value |-> LoginRefresh, maxAge |-> 2592000]

\* C23: the refreshToken cookie gets a non-empty value from a successful
\* login only; a successful refresh and a successful session resolution
\* leave the refreshToken cookie as it is.
C23_RefreshTokenWrittenByLoginOnly ==
    [][/\ (cookies'["refreshToken"] # cookies["refreshToken"]
             /\ Truthy(getCookie(cookies', "refreshToken")))
            => \E r \in Req : LoginSucceeds(r)
       /\ \A r \in Req :
            (RefreshReturns(r) \/ (Resolves(r) /\ result'[r].ok))
                => cookies'["refreshToken"] = cookies["refreshToken"]]_vars

\* C23 witness: a refresh returned a token, which is the access token in the
\* cookies, and the refresh token is still the one the login stored
C23_Witness ==
    \E r, q \in Req :
        /\ kind[q] = "login" /\ pc[q] = "done" /\ result[q].ok
        /\ refreshed[r].type = "token"
        /\ getCookie(cookies, "accessToken") = refreshed[r].token
        /\ getCookie(cookies, "refreshToken") = LoginRefresh

\* C25: a login attempt the backend rejects (status 401 included) is not
\* retried: the login request is dispatched once, no call to the refresh
\* endpoint is made and the cookies stay as they are.
C25_RejectedLoginIsNotRetried ==
    [][\A r \in Req : \A st \in ErrorStatuses :
          (kind[r] = "login" /\ Got(r, st)) =>
              /\ pc'[r] = "done"
              /\ refreshCalls' = refreshCalls
              /\ cookies' = cookies]_vars

\* ===================================================================
\* Properties of hasRole (under SpecRoles)
\* ===================================================================

\* the authority strings of a user that has an authorities array
AuthorityStrings(u) == {u.authorities[i].authority : i \in DOMAIN u.authorities}

\* C24: hasRole(role) is true exactly when a user is in memory and its
\* authorities hold an entry whose string is role, character for character;
\* it is false without a user and without the authority.  hasRole('ADMIN')
\* is the administrator predicate of the user menu.
C24_HasRoleIsExactMembership ==
    roleAnswer.called =>
        /\ roleAnswer.value = (/\ roleUser # NoUser
                         /\ roleUser.listed
                         /\ roleAsked \in AuthorityStrings(roleUser))
        /\ (roleUser # NoUser /\ roleUser.listed /\ roleAsked = "ADMIN")
              => roleAnswer.value = isAdmin(roleUser)

\* C24 witness: hasRole('ADMIN') answered false for a user whose authorities
\* are 'admin' and 'ADMINISTRATOR'
C24_Witness ==
    /\ roleAnswer.called /\ ~roleAnswer.value
    /\ roleAsked = "ADMIN"
    /\ roleUser.listed
    /\ roleUser.authorities = <<[authority |-> "admin"], [authority |-> "ADMINISTRATOR"]>>

\* ===================================================================
\* Properties of the consumers of the session
\* ===================================================================

\* the mount effects that have called fetchSession since the page was loaded
MountResolutions ==
    (IF mounted THEN 1 ELSE 0) + (IF sidebarMounted THEN 1 ELSE 0)

\* C26: on application start the session resolution is issued once, however
\* many components read the session (the dashboard layout and the sidebar),
\* and the components see the same user record.
C26_OneResolutionForAllConsumers ==
    /\ MountResolutions <= 1
    /\ sidebarMounted => sidebarUser = user

\* the redirect effect of the login page navigates in this step and the
\* route guard lets the navigation through
NavigatesAfterLogin ==
    /\ location = LoginPath /\ isRedirecting /\ ~isRedirecting'
    /\ pc' = pc /\ navigations' = navigations
    /\ Truthy(getCookie(cookies, "accessToken"))

\* C27: the callbackUrl round-trips through login: after the route guard
\* sent a request for the protected path P to /login?callbackUrl=P and the
\* user logged in, the navigation after the login goes to P; it goes to
\* /dashboard only when there is no callbackUrl.
C27_CallbackUrlRoundTrips ==
    [][NavigatesAfterLogin =>
          location' = (IF locationSearch # <<>>
                       THEN FormDecode(locationSearch) ELSE DashboardPath)]_vars

\* C28: once logout() or a refresh failure has cleared both tokens, the
\* cookies hold no access token until the next successful login: nothing
\* that was in flight when the tokens were cleared writes one back.
C28_NoAccessTokenAfterClearing ==
    tokensCleared => ~Truthy(getCookie(cookies, "accessToken"))

\* ===================================================================
\* Properties of the two guards together (under SpecLoop)
\* ===================================================================

\* C29: when the session resolution fails with an error other than 401 and
\* the access token cookie is still there, the layout's navigation to /login
\* and the route guard's redirect of /login to /dashboard do not alternate
\* for ever: from some point on the layout navigates no more and the
\* location stays the same.
C29_SettlesOnOnePage == <>[][~LayoutRedirect /\ location' = location]_vars

\* C29 witness: the resolution failed with a 500, the cookie is there, the
\* layout navigated to /login and the route guard sent it to /dashboard
C29_Witness ==
    \E r \in Req :
        /\ kind[r] = "session" /\ pc[r] = "done" /\ result[r] = RequestError(500)
        /\ Truthy(getCookie(cookies, "accessToken"))
        /\ mounted /\ ~loading /\ ~isAuthenticated
        /\ location = DashboardPath

\* ===================================================================
\* Termination of a request (under SpecFair)
\* ===================================================================

\* request r waits for the transport: for its reply or for its refresh call
Pending(r) == pc[r] \in {"inflight", "refreshing"}

\* C30: provided every transport call settles, every request settles (or
\* its page is unloaded), and it does so after at most two dispatches and at
\* most one refresh call; a refresh call answered with 401 is not followed
\* by another refresh call.
C30_EveryRequestSettles ==
    /\ [](\A r \in Req : dispatches[r] <= 2 /\ refreshCalls[r] <= 1)
    /\ [][\A r \in Req : refreshed[r].type = "reject" => refreshCalls'[r] <= refreshCalls[r]]_vars
    /\ \A r \in Req : Pending(r) ~> ~Pending(r)

\* C30 witness: a request was answered 401, its refresh call was answered
\* 401 as well, and the request is settled after one dispatch and one
\* refresh call
C30_Witness ==
    \E r \in Req :
        /\ pc[r] = "done"
        /\ refreshed[r] = [type |-> "reject", status |-> 401, token |-> Undefined]
        /\ dispatches[r] = 1 /\ refreshCalls[r] = 1

====
